---- MODULE Spec2Model ----
(***************************************************************************)
(* A model of the admin backend's algorithmic cores:                       *)
(*                                                                         *)
(*   - the Firestore index provisioning loop of create_indexes             *)
(*     (src/app/routes/firestore_indexes.py), one step per definition,     *)
(*     against a remote Admin API whose answers are chosen by the          *)
(*     environment;                                                        *)
(*   - the listing handlers get_file_categories (in-memory search, filter, *)
(*     sort and slice, src/app/routes/file_categories.py) and get_users    *)
(*     (native filter/order/paginate, src/app/routes/users.py);            *)
(*   - the static validation of the index definitions by validate_indexes  *)
(*     (src/app/routes/firestore_indexes.py), one step for the whole file; *)
(*   - the file category handlers create_file_category,                    *)
(*     update_file_category and delete_file_category                       *)
(*     (src/app/routes/file_categories.py), run by two concurrent workers, *)
(*     one step per store access;                                          *)
(*   - create_user and update_user (src/app/routes/users.py), one step per *)
(*     request, over the committed rows of the users table.                *)
(*                                                                         *)
(* Python dictionaries are records whose absent keys hold Missing; Python  *)
(* strings that the code only copies are TLA+ strings, strings that the    *)
(* code lower-cases or searches are sequences of one-character strings.    *)
(***************************************************************************)
EXTENDS Integers, Sequences, FiniteSets, TLC

\* ------------------------------------------------------------------ bounds

\* Longest list of index definitions in firestore.indexes.json.
MaxDefs == 3

\* Most records in the listed collection.
MaxRecords == 3

\* Largest page number requested.
MaxPage == 3

\* Largest small per_page requested (the schema's limit is requested too).
MaxPerPage == 3

\* Most requests to the file category handlers in one behaviour.
MaxRequests == 3

\* Most rows the users table is given in one behaviour.
MaxUsers == 3

\* The `le=100` of per_page in FileCategoryQuerySchema.
PerPageLimit == 100

\* ------------------------------------------------------- Python primitives

\* The value of dict.get(key) / the marker of "key not in dict".
Missing == "<missing>"

\* str.lower() on one character of the alphabet the model draws text from.
LowerChar(c) ==
    CASE c = "A" -> "a"
      [] c = "E" -> "e"
      [] c = "C" -> "c"
      [] c = "K" -> "k"
      [] c = "P" -> "p"
      [] OTHER -> c

\* str.lower(): every character lower-cased, length and order kept.
Lower(s) == [k \in 1..Len(s) |-> LowerChar(s[k])]

\* Python's `needle in haystack` for strings: a contiguous occurrence.
Contains(haystack, needle) ==
    \E off \in 0..(Len(haystack) - Len(needle)) :
        \A k \in 1..Len(needle) : haystack[off + k] = needle[k]

\* ------------------------------------------------- index definitions (input)

\* Field entries of firestore.indexes.json.
FieldAsc    == [fieldPath |-> "name", order |-> "ASCENDING", arrayConfig |-> Missing]
FieldArray  == [fieldPath |-> "tags", order |-> Missing, arrayConfig |-> "CONTAINS"]
FieldBoth   == [fieldPath |-> "name", order |-> "DESCENDING", arrayConfig |-> "CONTAINS"]
FieldNoPath == [fieldPath |-> Missing, order |-> "ASCENDING", arrayConfig |-> Missing]
FieldEmpty  == [fieldPath |-> Missing, order |-> Missing, arrayConfig |-> Missing]

\* One entry of the "indexes" list.  hasFields is `'fields' in index_def`.
IndexDef(cg, has, fs, qs) ==
    [collectionGroup |-> cg, hasFields |-> has, fields |-> fs, queryScope |-> qs]

DefUsers        == IndexDef("users", TRUE, <<FieldAsc, FieldArray>>, Missing)
DefOrders       == IndexDef("orders", TRUE, <<FieldBoth, FieldEmpty>>, "COLLECTION_GROUP")
DefNoCollection == IndexDef(Missing, TRUE, <<FieldAsc>>, Missing)
DefNoFields     == IndexDef("users", FALSE, <<>>, Missing)
DefEmptyFields  == IndexDef("orders", TRUE, <<FieldEmpty>>, Missing)
DefNoFieldPath  == IndexDef("users", TRUE, <<FieldNoPath>>, Missing)
DefEmptyCollection == IndexDef("", TRUE, <<FieldAsc>>, Missing)

\* The definitions a configuration file is drawn from.
IndexDefs ==
    {DefUsers, DefOrders, DefNoCollection, DefNoFields, DefEmptyFields, DefNoFieldPath,
     DefEmptyCollection}

\* Every list of at most MaxDefs definitions.
IndexFiles == UNION {[1..n -> IndexDefs] : n \in 0..MaxDefs}

\* ------------------------------------------------------- the remote Admin API

\* Text carried by an error body.
TextQuota  == <<"q", "u", "o", "t", "a">>
TextExists == <<"A", "l", "r", "e", "a", "d", "y", " ", "E", "x", "i", "s", "t", "s">>
NeedleExists == <<"a", "l", "r", "e", "a", "d", "y", " ", "e", "x", "i", "s", "t", "s">>

\* What request_obj.execute() can do.  kind "accept": returns an operation;
\* kind "exception": raises something that is not an HttpError; kind "http":
\* raises HttpError with resp.status `status` and a body of shape `form`
\* holding `text`:
\*   undecodable     bytes that are not UTF-8
\*   notjson         the text itself
\*   nonobject       a JSON string/array holding the text
\*   errornotobject  {"error": text}
\*   message         {"error": {"message": text}}
\*   messagedetails  {"error": {"message": text, "details": [...]}}
Answer(kind, status, form, text) ==
    [kind |-> kind, status |-> status, form |-> form, text |-> text]

\* The accepted request's operation carries its name in `text`.
AnswerAccept    == Answer("accept", 200, "operation", <<"o", "p", "1">>)
AnswerException == Answer("exception", 0, "none", <<>>)

HttpAnswers ==
    {Answer("http", 409, "message", TextQuota),
     Answer("http", 409, "undecodable", <<>>),
     Answer("http", 500, "notjson", TextExists),
     Answer("http", 500, "notjson", TextQuota),
     Answer("http", 500, "message", TextQuota),
     Answer("http", 500, "messagedetails", TextQuota),
     Answer("http", 500, "nonobject", TextQuota),
     Answer("http", 500, "errornotobject", TextQuota),
     Answer("http", 500, "undecodable", <<>>)}

RemoteAnswers == {AnswerAccept, AnswerException} \cup HttpAnswers

\* A remote API that keeps its indexes answers the creation of one it holds
\* with a conflict: status 409, or an error whose text says so.
ConflictAnswers ==
    {Answer("http", 409, "message", TextQuota),
     Answer("http", 500, "notjson", TextExists)}

\* ... and the creation of one it does not hold by accepting it or by failing.
FreshAnswers ==
    {AnswerAccept,
     AnswerException,
     Answer("http", 500, "message", TextQuota),
     Answer("http", 500, "nonobject", TextQuota)}

\* ------------------------------------------------------------------- state

VARIABLES
    indexes_to_create,  \* index_config.get("indexes", []) of the file read
    pc,                 \* "entry", "returned" (answered before the POST logic), "begin",
                        \* "loop", "done", or "raised" (an exception left create_indexes)
    pos,                \* 1-based position of the loop over indexes_to_create
    results,            \* the list `results`
    has_errors,         \* the flag `has_errors`
    response,           \* [code, status] returned by create_indexes; code 0: none yet
    requests,           \* the creation requests the remote API received, in order
    remote,             \* the composite indexes the remote API holds
    run,                \* which invocation of create_indexes this is (1 or 2)
    first,              \* what the first invocation ended with, kept for the second
    categories,         \* the records FileCategory.get_all() hands out, in store order
    query,              \* the validated query of the last listing request
    page_fc,            \* what get_file_categories answered
    ordered,            \* filtered_categories after the sort of that request
    page_users,         \* what get_users answered for the same query
    request_args,       \* request.args of the listing request, as sent
    fetched,            \* FileCategory.get_all() was called
    all_categories_after, \* the list get_all() returned, as the handler left it
    validation,         \* what validate_indexes answered
    method,             \* request.method of the request to create_indexes
    token,              \* the JWT of that request, if it has one
    file_read,          \* firestore.indexes.json was opened for that request
    client_built,       \* the Admin API client was built for that request
    fc_store,           \* the file categories the document store holds
    user_count,         \* per category id, the number of users it is assigned to
    activity,           \* the activity log, in the order of the saves
    fc_next_id,         \* the id the store gives to the next new document
    fc_started,         \* the number of requests received so far
    fc_req,             \* per worker, the request it is handling or handled last
    fc_pc,              \* per worker, its position in the handler ("idle": in none)
    fc_obj,             \* per worker, the local `file_category` object
    fc_ans,             \* per worker, the response to fc_req once it is made
    users,              \* the rows of the users table, as committed
    user_next_id,       \* the id the table gives to the next new row
    user_req,           \* the last request to create_user or update_user
    user_ans            \* the response to it

provVars == <<indexes_to_create, pc, pos, results, has_errors, response, requests,
              remote, run, first>>
listVars == <<categories, query, page_fc, ordered, page_users, request_args, fetched,
              all_categories_after>>
valVars == <<validation>>
authVars == <<method, token, file_read, client_built>>
catVars == <<fc_store, user_count, activity, fc_next_id, fc_started, fc_req, fc_pc, fc_obj,
             fc_ans>>
userVars == <<users, user_next_id, user_req, user_ans>>
vars == <<provVars, listVars, valVars, authVars, catVars, userVars>>

\* --------------------------------------------- create_indexes: pure helpers

\* CollectionMissing testing for the key only.
CollectionKeyAbsent(index_def) == index_def.collectionGroup = Missing

\* `if not collection_id`: the key is absent or its value is the empty string.
CollectionMissing(index_def) ==
    index_def.collectionGroup = Missing \/ index_def.collectionGroup = ""

\* index_def.get("fields", [])
FieldsOf(index_def) == IF index_def.hasFields THEN index_def.fields ELSE <<>>

\* ApiField as it was before arrayConfig was supported.
ApiFieldWithoutArrayConfig(field) ==
    [fieldPath |-> field.fieldPath, order |-> field.order, arrayConfig |-> Missing]

\* The api_field built for one field: the three keys copied when present.
ApiField(field) ==
    [fieldPath |-> field.fieldPath, order |-> field.order, arrayConfig |-> field.arrayConfig]

\* `if api_field`: the dict has at least one key.
ApiFieldNonEmpty(api_field) ==
    \/ api_field.fieldPath # Missing
    \/ api_field.order # Missing
    \/ api_field.arrayConfig # Missing

\* The list api_fields: the non-empty api_field of every field, in order.
ApiFields(index_def) ==
    SelectSeq([k \in 1..Len(FieldsOf(index_def)) |-> ApiField(FieldsOf(index_def)[k])],
              ApiFieldNonEmpty)

\* index_body
IndexBody(index_def) ==
    [queryScope |-> IF index_def.queryScope = Missing THEN "COLLECTION"
                    ELSE index_def.queryScope,
     fields |-> ApiFields(index_def)]

\* f['fieldPath'] raises KeyError while index_name_str is built (outside the try).
IndexNameRaises(api_fields) ==
    \E k \in 1..Len(api_fields) : api_fields[k].fieldPath = Missing

\* One element of the list joined into index_name_str.
NamePart(f) ==
    IF f.order # Missing THEN <<f.fieldPath, " ", f.order>>
    ELSE <<f.fieldPath, " ARRAY_CONTAINS">>

RECURSIVE JoinParts(_)
JoinParts(parts) ==
    IF parts = <<>> THEN <<>>
    ELSE IF Len(parts) = 1 THEN parts[1]
    ELSE parts[1] \o <<", ">> \o JoinParts(Tail(parts))

\* index_name_str, as the sequence of the strings it concatenates.
IndexName(collection_id, api_fields) ==
    <<collection_id, " (">>
        \o JoinParts([k \in 1..Len(api_fields) |-> NamePart(api_fields[k])])
        \o <<")">>

\* One element of `results`.
Outcome(index, status, detail) == [index |-> index, status |-> status, detail |-> detail]

\* e.content.decode('utf-8') raises UnicodeDecodeError inside the HttpError handler.
DecodeRaises(a) == a.form = "undecodable"

\* error_content: the decoded body (its text; JSON punctuation holds no letters).
ErrorContent(a) == a.text

\* IsAlreadyExists with the .lower() of line 269 forgotten.
IsAlreadyExistsCaseSensitive(a) ==
    a.status = 409 \/ Contains(ErrorContent(a), NeedleExists)

\* e.resp.status == 409 or 'already exists' in error_content.lower()
IsAlreadyExists(a) ==
    a.status = 409 \/ Contains(Lower(ErrorContent(a)), NeedleExists)

\* json.loads(error_content).get('error', {}) or error_info.get('message', ...)
\* raises AttributeError, which the handler's inner except clause does not name.
ParseRaises(a) == a.form \in {"nonobject", "errornotobject"}

\* str(e) of an HttpError.
RawError(a) == <<"<HttpError ", ToString(a.status), ">">>

\* error_detail of the else-branch of the HttpError handler.
ErrorDetail(a) ==
    CASE a.form = "message" -> a.text
      [] a.form = "messagedetails" -> a.text \o <<" Details: ", "[...]">>
      [] OTHER -> RawError(a)

\* The exception leaves the HttpError handler (and so create_indexes).
HandlerRaises(a) ==
    a.kind = "http" /\ (DecodeRaises(a) \/ (~IsAlreadyExists(a) /\ ParseRaises(a)))

\* final_status_code and the "status" member of the response.
FinalResponse(errors) ==
    IF errors THEN [code |-> 207, status |-> "Completed with Errors/Skips"]
    ELSE [code |-> 200, status |-> "Completed"]

NoResponse == [code |-> 0, status |-> "none"]

\* Line 205: parent, with the project and database of the deployment.
Parent == <<"projects/", "p", "/databases/", "(default)", "/collectionGroups">>

\* Line 253: parent=f"{parent}/{collection_id}"
RequestParent(collection_id) == Parent \o <<"/", collection_id>>

\* The request the remote API receives for a definition; `at` and `seen` note
\* the loop position and the number of outcomes recorded when it was sent.
Request(index_def, a, at, seen) ==
    [parent |-> RequestParent(index_def.collectionGroup), body |-> IndexBody(index_def),
     answer |-> a, at |-> at, seen |-> seen]

\* What identifies a composite index on the remote side.
IndexKey(index_def) == [parent |-> index_def.collectionGroup, body |-> IndexBody(index_def)]

\* The definition passes both skip checks and index_name_str is built.
Submittable(index_def) ==
    /\ ~CollectionMissing(index_def)
    /\ ApiFields(index_def) # <<>>
    /\ ~IndexNameRaises(ApiFields(index_def))

NoFirst == [pc |-> "none", results |-> <<>>, has_errors |-> FALSE, remote |-> {}]

\* ------------------------------------------------- create_indexes: the steps

\* The current definition of the loop.
CurrentDef == indexes_to_create[pos]

InLoop == pc = "loop" /\ pos <= Len(indexes_to_create)

\* The roles a token can carry; Missing: the token has no 'role' claim.
Roles == {"user", "admin", "superadmin", Missing}

\* The requests @jwt_required(optional=True) lets through: without a token,
\* or with a valid one.
NoToken == [present |-> FALSE, role |-> Missing]
Tokens == {NoToken} \cup [present : {TRUE}, role : Roles]

\* get_jwt(): the claims of the token; {} when the request has none.
GetJwt(t) == [role |-> IF t.present THEN t.role ELSE Missing]

\* Line 18 with 'superadmin' as the default of the role.
RoleDefaultsToSuperadmin(claims) ==
    IF claims.role = Missing THEN "superadmin" ELSE claims.role

\* Line 18: role = claims.get('role', 'user')
Role(claims) == IF claims.role = Missing THEN "user" ELSE claims.role

\* Lines 15-21: require_superadmin() returns an error response.
AuthError(t) == Role(GetJwt(t)) # "superadmin"

\* Lines 115-143: the preflight is answered OK, a caller who is not a
\* superadmin is refused, and for a superadmin the index file is read.
Authorize ==
    /\ pc = "entry"
    /\ IF method = "OPTIONS"
       THEN /\ pc' = "returned"
            /\ response' = [code |-> 200, status |-> "OK"]
            /\ UNCHANGED file_read
       ELSE IF AuthError(token)
       THEN /\ pc' = "returned"
            /\ response' = [code |-> 403, status |-> Missing]
            /\ UNCHANGED file_read
       ELSE /\ pc' = "begin"
            /\ response' = NoResponse
            /\ file_read' = TRUE
    /\ UNCHANGED <<indexes_to_create, pos, results, has_errors, requests, remote, run,
                   first, listVars, valVars, catVars, userVars, method, token,
                   client_built>>

\* Lines 143-213: an empty list is answered at once, otherwise the client is
\* built and the loop starts with no result and no error.
Begin ==
    /\ pc = "begin"
    /\ results' = <<>>
    /\ has_errors' = FALSE
    /\ pos' = 1
    /\ requests' = <<>>
    /\ IF indexes_to_create = <<>>
       THEN pc' = "done" /\ response' = [code |-> 200, status |-> "Info"]
       ELSE pc' = "loop" /\ response' = NoResponse
    /\ client_built' = (indexes_to_create # <<>>)
    /\ UNCHANGED <<indexes_to_create, remote, run, first, listVars, valVars,
                   catVars, userVars, method, token, file_read>>

\* Lines 216-220: no collectionGroup.
SkipMissingCollection ==
    /\ InLoop
    /\ CollectionMissing(CurrentDef)
    /\ results' = Append(results,
           Outcome(<<"Unknown">>, "Skipped", <<"Missing 'collectionGroup' in definition.">>))
    /\ has_errors' = TRUE
    /\ pos' = pos + 1
    /\ UNCHANGED <<indexes_to_create, pc, response, requests, remote, run, first, listVars, valVars, authVars, catVars, userVars>>

\* SkipNoFields with the `has_errors = True` of line 240 forgotten.
SkipNoFieldsKeepsFlag ==
    /\ InLoop
    /\ ~CollectionMissing(CurrentDef)
    /\ ApiFields(CurrentDef) = <<>>
    /\ results' = Append(results,
           Outcome(<<CurrentDef.collectionGroup>>, "Skipped",
                   <<"No valid 'fields' defined for index.">>))
    /\ pos' = pos + 1
    /\ UNCHANGED <<indexes_to_create, pc, has_errors, response, requests, remote, run,
                   first, listVars, valVars, authVars, catVars, userVars>>

\* Lines 224-241: the fields map to no api_field.
SkipNoFields ==
    /\ InLoop
    /\ ~CollectionMissing(CurrentDef)
    /\ ApiFields(CurrentDef) = <<>>
    /\ results' = Append(results,
           Outcome(<<CurrentDef.collectionGroup>>, "Skipped",
                   <<"No valid 'fields' defined for index.">>))
    /\ has_errors' = TRUE
    /\ pos' = pos + 1
    /\ UNCHANGED <<indexes_to_create, pc, response, requests, remote, run, first, listVars, valVars, authVars, catVars, userVars>>

\* Line 248: building index_name_str raises KeyError; no try encloses it, so
\* the exception leaves create_indexes.
NameRaises ==
    /\ InLoop
    /\ ~CollectionMissing(CurrentDef)
    /\ ApiFields(CurrentDef) # <<>>
    /\ IndexNameRaises(ApiFields(CurrentDef))
    /\ pc' = "raised"
    /\ UNCHANGED <<indexes_to_create, pos, results, has_errors, response, requests,
                   remote, run, first, listVars, valVars, authVars, catVars, userVars>>

\* The request of the current definition reaches the remote API with answer a.
Sent(a) ==
    /\ InLoop
    /\ Submittable(CurrentDef)
    /\ requests' = Append(requests, Request(CurrentDef, a, pos, Len(results)))

\* Lines 250-263: the request is accepted.
CreateInitiated(a) ==
    /\ Sent(a)
    /\ a.kind = "accept"
    /\ results' = Append(results,
           Outcome(IndexName(CurrentDef.collectionGroup, ApiFields(CurrentDef)),
                   "Initiated", <<"Operation: ">> \o a.text))
    /\ remote' = remote \cup {IndexKey(CurrentDef)}
    /\ pos' = pos + 1
    /\ UNCHANGED <<indexes_to_create, pc, has_errors, response, run, first, listVars, valVars, authVars, catVars, userVars>>

\* Lines 265-271: HttpError that signals an existing index.
CreateExists(a) ==
    /\ Sent(a)
    /\ a.kind = "http"
    /\ ~DecodeRaises(a)
    /\ IsAlreadyExists(a)
    /\ results' = Append(results,
           Outcome(IndexName(CurrentDef.collectionGroup, ApiFields(CurrentDef)),
                   "Exists", <<"Index already exists.">>))
    /\ pos' = pos + 1
    /\ UNCHANGED <<indexes_to_create, pc, has_errors, response, remote, run, first, listVars, valVars, authVars, catVars, userVars>>

\* Lines 272-286: any other HttpError whose body the handler gets through.
CreateHttpError(a) ==
    /\ Sent(a)
    /\ a.kind = "http"
    /\ ~DecodeRaises(a)
    /\ ~IsAlreadyExists(a)
    /\ ~ParseRaises(a)
    /\ results' = Append(results,
           Outcome(IndexName(CurrentDef.collectionGroup, ApiFields(CurrentDef)),
                   "Error", ErrorDetail(a)))
    /\ has_errors' = TRUE
    /\ pos' = pos + 1
    /\ UNCHANGED <<indexes_to_create, pc, response, remote, run, first, listVars, valVars, authVars, catVars, userVars>>

\* Lines 266 and 278-283: an exception raised inside the HttpError handler is
\* not caught by the sibling `except Exception` and leaves create_indexes.
CreateHandlerRaises(a) ==
    /\ Sent(a)
    /\ HandlerRaises(a)
    /\ pc' = "raised"
    /\ UNCHANGED <<indexes_to_create, pos, results, has_errors, response, remote, run,
                   first, listVars, valVars, authVars, catVars, userVars>>

\* Lines 288-291: an exception of the try body that is not an HttpError.
CreateUnexpected(a) ==
    /\ Sent(a)
    /\ a.kind = "exception"
    /\ results' = Append(results,
           Outcome(IndexName(CurrentDef.collectionGroup, ApiFields(CurrentDef)),
                   "Error", <<"Unexpected error: ", "str(e)">>))
    /\ has_errors' = TRUE
    /\ pos' = pos + 1
    /\ UNCHANGED <<indexes_to_create, pc, response, remote, run, first, listVars, valVars, authVars, catVars, userVars>>

\* Lines 293-299: the loop is over; the response is built.
Finish ==
    /\ pc = "loop"
    /\ pos > Len(indexes_to_create)
    /\ pc' = "done"
    /\ response' = FinalResponse(has_errors)
    /\ UNCHANGED <<indexes_to_create, pos, results, has_errors, requests, remote, run,
                   first, listVars, valVars, authVars, catVars, userVars>>

\* One iteration of the loop whose request gets answer a.
Create(a) ==
    \/ CreateInitiated(a)
    \/ CreateExists(a)
    \/ CreateHttpError(a)
    \/ CreateHandlerRaises(a)
    \/ CreateUnexpected(a)

\* ------------------------------------------------------- validate_indexes

\* Field entries and definitions that only the validator tells apart.
FieldDesc     == [fieldPath |-> "age", order |-> "DESCENDING", arrayConfig |-> Missing]
FieldBadOrder == [fieldPath |-> "age", order |-> "UP", arrayConfig |-> Missing]
FieldBadArray == [fieldPath |-> "tags", order |-> Missing, arrayConfig |-> "ALL"]

DefEmptyList       == IndexDef("users", TRUE, <<>>, Missing)
DefDesc            == IndexDef("orders", TRUE, <<FieldDesc, FieldArray>>, "COLLECTION_GROUP")
DefBadValues       == IndexDef("orders", TRUE, <<FieldBadOrder, FieldBadArray>>, Missing)
DefBoth            == IndexDef("users", TRUE, <<FieldAsc, FieldBoth>>, Missing)

\* The definitions a validated file is drawn from.
ValidatorDefs ==
    IndexDefs \cup {DefEmptyList, DefDesc, DefBadValues, DefBoth}

ValidatorFiles == UNION {[1..n -> ValidatorDefs] : n \in 0..MaxDefs}

\* One entry of validation_errors / validation_warnings: the message with the
\* positions it names (field -1: the message names no field).
Finding(idx, field_idx, message) == [index |-> idx, field |-> field_idx, message |-> message]

\* Line 324 with the test for an empty list forgotten.
FieldsKeyAbsent(index_config) == ~index_config.hasFields

\* Line 324: 'fields' not in index_config or not index_config['fields']
FieldsMissingOrEmpty(index_config) ==
    ~index_config.hasFields \/ index_config.fields = <<>>

\* Line 349 accepting 'ASCENDING' only.
OrderIllegalUnlessAscending(order) == order # "ASCENDING"

\* Line 349: field_config['order'] not in ['ASCENDING', 'DESCENDING']
OrderIllegal(order) == order \notin {"ASCENDING", "DESCENDING"}

\* Line 354: field_config['arrayConfig'] != 'CONTAINS'
ArrayConfigIllegal(arrayConfig) == arrayConfig # "CONTAINS"

\* Lines 330-357: the errors one field adds, in the order they are appended.
FieldErrors(idx, field_idx, field_config) ==
    LET has_order == field_config.order # Missing
        has_array_config == field_config.arrayConfig # Missing
    IN (IF field_config.fieldPath = Missing
        THEN <<Finding(idx, field_idx, "missing 'fieldPath'")>> ELSE <<>>)
       \o (IF ~has_order /\ ~has_array_config
           THEN <<Finding(idx, field_idx, "must have either 'order' or 'arrayConfig'")>>
           ELSE <<>>)
       \o (IF has_order /\ OrderIllegal(field_config.order)
           THEN <<Finding(idx, field_idx, "'order' must be 'ASCENDING' or 'DESCENDING'")>>
           ELSE <<>>)
       \o (IF has_array_config /\ ArrayConfigIllegal(field_config.arrayConfig)
           THEN <<Finding(idx, field_idx, "'arrayConfig' must be 'CONTAINS'")>>
           ELSE <<>>)

\* Lines 344-347: the warning one field adds.
FieldWarnings(idx, field_idx, field_config) ==
    IF field_config.order # Missing /\ field_config.arrayConfig # Missing
    THEN <<Finding(idx, field_idx,
                   "has both 'order' and 'arrayConfig', 'arrayConfig' will be used")>>
    ELSE <<>>

\* The concatenation of a list of lists.
RECURSIVE Flatten(_)
Flatten(lists) == IF lists = <<>> THEN <<>> ELSE lists[1] \o Flatten(Tail(lists))

\* Lines 321-357: the errors one definition adds (idx counts from 0).
IndexErrors(idx, index_config) ==
    (IF index_config.collectionGroup = Missing
     THEN <<Finding(idx, -1, "missing 'collectionGroup' field")>> ELSE <<>>)
    \o (IF FieldsMissingOrEmpty(index_config)
        THEN <<Finding(idx, -1, "missing or empty 'fields' array")>> ELSE <<>>)
    \o (IF index_config.hasFields
        THEN Flatten([k \in 1..Len(index_config.fields) |->
                         FieldErrors(idx, k - 1, index_config.fields[k])])
        ELSE <<>>)

\* Lines 328-347: the warnings one definition adds.
IndexWarnings(idx, index_config) ==
    IF index_config.hasFields
    THEN Flatten([k \in 1..Len(index_config.fields) |->
                     FieldWarnings(idx, k - 1, index_config.fields[k])])
    ELSE <<>>

\* Lines 315-357: validation_errors and validation_warnings after the loop.
ValidationErrors(indexes) ==
    Flatten([k \in 1..Len(indexes) |-> IndexErrors(k - 1, indexes[k])])

ValidationWarnings(indexes) ==
    Flatten([k \in 1..Len(indexes) |-> IndexWarnings(k - 1, indexes[k])])

\* is_valid with the warnings counted as well.
IsValidWithoutFindings(validation_errors, validation_warnings) ==
    Len(validation_errors) = 0 /\ Len(validation_warnings) = 0

\* Line 359: is_valid = len(validation_errors) == 0
IsValid(validation_errors, validation_warnings) == Len(validation_errors) = 0

\* Lines 361-367: the response.
ValidationResponse(indexes) ==
    LET validation_errors == ValidationErrors(indexes)
        validation_warnings == ValidationWarnings(indexes)
        is_valid == IsValid(validation_errors, validation_warnings)
    IN [code |-> IF is_valid THEN 200 ELSE 400,
        status |-> IF is_valid THEN "valid" ELSE "invalid",
        total_indexes |-> Len(indexes),
        errors |-> validation_errors,
        warnings |-> validation_warnings]

NoValidation ==
    [code |-> 0, status |-> "none", total_indexes |-> 0, errors |-> <<>>, warnings |-> <<>>]

\* Lines 304-367: validate_indexes answers for the file read.
ValidateIndexes ==
    /\ validation = NoValidation
    /\ validation' = ValidationResponse(indexes_to_create)
    /\ UNCHANGED <<provVars, listVars, authVars, catVars, userVars>>

\* ------------------------------------------------------ listing: the records

\* Code points of the characters that sort keys are made of (ord()).
Ord(c) ==
    CASE c = "A" -> 65
      [] c = "C" -> 67
      [] c = "E" -> 69
      [] c = "K" -> 75
      [] c = "P" -> 80
      [] c = "a" -> 97
      [] c = "c" -> 99
      [] c = "e" -> 101
      [] c = "h" -> 104
      [] c = "i" -> 105
      [] c = "k" -> 107
      [] c = "p" -> 112
      [] c = "s" -> 115
      [] c = "y" -> 121
      [] c = "1" -> 49
      [] c = "2" -> 50
      [] c = "3" -> 51
      [] c = "4" -> 52
      [] OTHER -> 0

\* A stored record.  name and description are <<>> when None (or empty: the
\* handler treats both alike); created_date is <<>> when None, else <<t>>.
Record(id, code, name, description, status, created_date) ==
    [id |-> id, code |-> code, name |-> name, description |-> description,
     status |-> status, created_date |-> created_date]

RecordUniverse ==
    {Record("1", <<"A", "C">>, <<"c", "k">>, <<>>, "active", <<2>>),
     Record("2", <<"C", "K">>, <<"A", "c">>, <<"e">>, "active", <<1>>),
     Record("3", <<"E">>, <<>>, <<"a", "C", "K">>, "inactive", <<>>),
     Record("4", <<"K", "A">>, <<"c", "k">>, <<>>, "inactive", <<1>>)}

\* The two records of a reference collection that are named after checks.
RecordChecks ==
    Record("5", <<"C", "1">>, <<"C", "h", "e", "c", "k", "s">>, <<>>, "active", <<3>>)
RecordPaychecks ==
    Record("6", <<"P", "1">>, <<"P", "a", "y", "c", "h", "e", "c", "k", "s">>, <<>>,
           "active", <<4>>)

\* A collection of five records, two of them named after checks.
ExampleStore ==
    <<RecordChecks,
      Record("1", <<"A", "C">>, <<"c", "k">>, <<>>, "active", <<2>>),
      RecordPaychecks,
      Record("2", <<"C", "K">>, <<"A", "c">>, <<"e">>, "active", <<1>>),
      Record("3", <<"E">>, <<>>, <<"a", "C", "K">>, "inactive", <<>>)>>

\* The search term of the example.
TermCheck == <<"c", "h", "e", "c", "k">>

\* A sequence without repetition.
Distinct(seq) == \A i, j \in 1..Len(seq) : i # j => seq[i] # seq[j]

\* The collections the store can hold, in the order get_all() returns them.
Collections ==
    {c \in UNION {[1..n -> RecordUniverse] : n \in 0..MaxRecords} : Distinct(c)}
        \cup {ExampleStore}

\* The attributes a record has (hasattr / a column of the model).
RecordFields == {"id", "code", "name", "description", "status", "created_date"}

\* The validated queries: FileCategoryQuerySchema / UserQuerySchema.
Queries ==
    [search : {<<>>, <<"c", "K">>, <<"E">>, TermCheck},
     status : {Missing, "active", "inactive"},
     sort : {"code", "name", "created_date", "nosuch"},
     order : {"asc", "desc"},
     page : 1..MaxPage,
     per_page : (1..MaxPerPage) \cup {PerPageLimit}]

NoQuery ==
    [search |-> <<>>, status |-> Missing, sort |-> "code", order |-> "asc",
     page |-> 0, per_page |-> 0]

\* A response of a listing handler; code 0: none yet, 500: the handler raised.
Page(code, items, total, pages, has_next, has_prev) ==
    [code |-> code, items |-> items, total |-> total, pages |-> pages,
     has_next |-> has_next, has_prev |-> has_prev]

NoPage == Page(0, <<>>, 0, 0, FALSE, FALSE)
RaisedPage == Page(500, <<>>, 0, 0, FALSE, FALSE)

\* The answer to a request whose parameters the schema refuses.
RejectedPage == Page(400, <<>>, 0, 0, FALSE, FALSE)

\* ------------------------------------------------ listing: query parameters

\* The characters of a decimal numeral, by value.
Digit(d) == <<"0", "1", "2", "3", "4", "5", "6", "7", "8", "9">>[d + 1]

DigitValue(c) == CHOOSE d \in 0..9 : Digit(d) = c

\* str(n) for n >= 0: what a client puts into the query string.
RECURSIVE Decimal(_)
Decimal(n) == IF n < 10 THEN <<Digit(n)>> ELSE Decimal(n \div 10) \o <<Digit(n % 10)>>

\* The value of a string of digits.
RECURSIVE DigitsValue(_)
DigitsValue(s) ==
    IF s = <<>> THEN 0
    ELSE 10 * DigitsValue(SubSeq(s, 1, Len(s) - 1)) + DigitValue(s[Len(s)])

\* `page: int` / `per_page: int`: the integer a numeral of the query string
\* is converted to.
ParseInt(s) == IF s[1] = "-" THEN 0 - DigitsValue(Tail(s)) ELSE DigitsValue(s)

\* page with ge=0 in place of ge=1.
PageAcceptedFromZero(page) == page >= 0

\* Line 33: page = Field(default=1, ge=1)
PageAccepted(page) == page >= 1

\* Line 34: per_page = Field(default=20, ge=1, le=100)
PerPageAccepted(per_page) == per_page >= 1 /\ per_page <= PerPageLimit

\* FileCategoryQuerySchema(**args) raises no ValidationError.
SchemaAccepts(args) ==
    /\ PageAccepted(ParseInt(args.page))
    /\ PerPageAccepted(ParseInt(args.per_page))

\* validated_data: the schema instance built from the arguments.
Validated(args) ==
    [args EXCEPT !.page = ParseInt(args.page), !.per_page = ParseInt(args.per_page)]

\* The query string that asks for the validated query q.
RawArgs(q) == [q EXCEPT !.page = Decimal(q.page), !.per_page = Decimal(q.per_page)]

\* Numerals of page and per_page that lie outside the schema's ranges.
PagesOutOfRange == {<<"0">>, <<"-", "1">>}
PerPagesOutOfRange == {<<"0">>, <<"-", "1">>, Decimal(PerPageLimit + 1)}

\* The requests sent: one for every query of Queries, and the unfiltered
\* listing sorted by code with every mix of numerals in and out of range.
RawRequests ==
    {RawArgs(q) : q \in Queries}
        \cup [search : {<<>>}, status : {Missing}, sort : {"code"}, order : {"asc"},
              page : PagesOutOfRange \cup {Decimal(n) : n \in 1..MaxPage},
              per_page : PerPagesOutOfRange \cup {Decimal(n) : n \in 1..MaxPerPage}]

NoArgs ==
    [search |-> <<>>, status |-> Missing, sort |-> "code", order |-> "asc",
     page |-> <<>>, per_page |-> <<>>]

\* ------------------------------------------------- listing: Python semantics

Min(a, b) == IF a < b THEN a ELSE b
Max(a, b) == IF a > b THEN a ELSE b

\* A slice bound as list.__getitem__ normalises it.
SliceBound(i, len) == IF i < 0 THEN Max(i + len, 0) ELSE Min(i, len)

\* seq[start:end]
PySlice(seq, start, end) ==
    SubSeq(seq, SliceBound(start, Len(seq)) + 1, SliceBound(end, Len(seq)))

\* list(reversed(seq))
Reverse(seq) == [k \in 1..Len(seq) |-> seq[Len(seq) + 1 - k]]

\* a < b on str: the first differing character decides, a proper prefix is less.
StrLess(a, b) ==
    \E k \in 1..(Min(Len(a), Len(b)) + 1) :
        /\ \A j \in 1..(k - 1) : a[j] = b[j]
        /\ IF k > Len(a) THEN k <= Len(b)
           ELSE k <= Len(b) /\ Ord(a[k]) < Ord(b[k])

\* A sort key: a str or a float (datetime.timestamp()).
StrKey(v) == [type |-> "str", str |-> v, num |-> 0]
NumKey(n) == [type |-> "num", str |-> <<>>, num |-> n]

\* a < b on two keys of one type.
KeyLess(a, b) ==
    IF a.type = "num" THEN a.num < b.num ELSE StrLess(a.str, b.str)

\* Comparing a float with a str raises TypeError; a sort of two or more
\* elements compares keys of every type present.
SortRaises(keys) ==
    \E i, j \in 1..Len(keys) : keys[i].type # keys[j].type

\* Insert x behind every element its key is not less than (a stable
\* insertion); the elements are [item, key] pairs.
RECURSIVE InsertStable(_, _)
InsertStable(sorted, x) ==
    IF sorted = <<>> THEN <<x>>
    ELSE IF KeyLess(x.key, sorted[1].key) THEN <<x>> \o sorted
    ELSE <<sorted[1]>> \o InsertStable(Tail(sorted), x)

RECURSIVE StableSort(_)
StableSort(pairs) ==
    IF pairs = <<>> THEN <<>>
    ELSE InsertStable(StableSort(SubSeq(pairs, 1, Len(pairs) - 1)), pairs[Len(pairs)])

\* PySort with reverse implemented by reversing the sorted list.
PySortReversesResult(pairs, reverse) ==
    LET sorted == IF reverse THEN Reverse(StableSort(pairs))
                  ELSE StableSort(pairs)
    IN [k \in 1..Len(sorted) |-> sorted[k].item]

\* list.sort(key=key, reverse=reverse): stable; with reverse the list is
\* reversed, sorted and reversed again, so equal keys keep their order.
\* `pairs` holds each item with the key computed for it.
PySort(pairs, reverse) ==
    LET sorted == IF reverse THEN Reverse(StableSort(Reverse(pairs)))
                  ELSE StableSort(pairs)
    IN [k \in 1..Len(sorted) |-> sorted[k].item]

\* ---------------------------------------------- listing: get_file_categories

\* MatchesSearch with the .lower() of the record's fields forgotten.
MatchesSearchCaseSensitive(cat, search) ==
    LET search_term == Lower(search)
    IN \/ Contains(cat.code, search_term)
       \/ (cat.name # <<>> /\ Contains(cat.name, search_term))
       \/ (cat.description # <<>> /\ Contains(cat.description, search_term))

\* Lines 58-65: the search filter.
MatchesSearch(cat, search) ==
    LET search_term == Lower(search)
    IN \/ Contains(Lower(cat.code), search_term)
       \/ (cat.name # <<>> /\ Contains(Lower(cat.name), search_term))
       \/ (cat.description # <<>> /\ Contains(Lower(cat.description), search_term))

\* Filtered with the status filter built from all_categories, which drops
\* the result of the search.
FilteredStatusDropsSearch(all_categories, q) ==
    LET searched == IF q.search # <<>>
                    THEN SelectSeq(all_categories, LAMBDA cat : MatchesSearch(cat, q.search))
                    ELSE all_categories
    IN IF q.status # Missing
       THEN SelectSeq(all_categories, LAMBDA cat : cat.status = q.status)
       ELSE searched

\* Lines 55-69: filtered_categories before the sort.
Filtered(all_categories, q) ==
    LET searched == IF q.search # <<>>
                    THEN SelectSeq(all_categories, LAMBDA cat : MatchesSearch(cat, q.search))
                    ELSE all_categories
    IN IF q.status # Missing
       THEN SelectSeq(searched, LAMBDA cat : cat.status = q.status)
       ELSE searched

\* The str a record holds in a field that is not a date.  A status is
\* given by its first letter, which orders "active" before "inactive".
StrField(cat, field) ==
    CASE field = "id" -> <<cat.id>>
      [] field = "code" -> cat.code
      [] field = "name" -> cat.name
      [] field = "description" -> cat.description
      [] field = "status" -> (IF cat.status = "active" THEN <<"a">> ELSE <<"i">>)

\* Lines 75-81: get_sort_value.  A datetime gives its timestamp; None, an
\* empty str and a field the record does not have give ''.
SortValue(cat, sort_field) ==
    IF sort_field \in RecordFields
    THEN IF sort_field = "created_date"
         THEN IF cat.created_date # <<>> THEN NumKey(cat.created_date[1]) ELSE StrKey(<<>>)
         ELSE StrKey(StrField(cat, sort_field))
    ELSE StrKey(<<>>)

\* pages of _paginate_firestore, with the rounding up forgotten.
PageCountFloor(total, per_page) == total \div per_page

\* Line 35: pages = (total + per_page - 1) // per_page
PageCount(total, per_page) == (total + per_page - 1) \div per_page

\* start of _paginate_firestore, counting pages from 0.
SliceStartFromZero(page, per_page) == page * per_page

\* Line 32: start = (page - 1) * per_page
SliceStart(page, per_page) == (page - 1) * per_page

\* _paginate_firestore with has_next still true on the page that ends the list.
PaginateFirestoreNextAtEnd(query_results, page, per_page) ==
    LET total == Len(query_results)
        start == SliceStart(page, per_page)
        end == start + per_page
    IN Page(200, PySlice(query_results, start, end), total, PageCount(total, per_page),
            end <= total, page > 1)

\* Lines 29-43: _paginate_firestore.
PaginateFirestore(query_results, page, per_page) ==
    LET total == Len(query_results)
        start == SliceStart(page, per_page)
        end == start + per_page
    IN Page(200, PySlice(query_results, start, end), total, PageCount(total, per_page),
            end < total, page > 1)

\* Lines 72-83: the sort raises TypeError.
ListingRaises(all_categories, q) ==
    LET filtered == Filtered(all_categories, q)
    IN SortRaises([k \in 1..Len(filtered) |-> SortValue(filtered[k], q.sort)])

\* Lines 72-83: filtered_categories after the sort.
Ordered(all_categories, q) ==
    LET filtered == Filtered(all_categories, q)
    IN PySort([k \in 1..Len(filtered) |->
                  [item |-> filtered[k], key |-> SortValue(filtered[k], q.sort)]],
              q.order = "desc")

\* Lines 49-98: the response of get_file_categories.
FileCategoriesPage(all_categories, q) ==
    IF ListingRaises(all_categories, q) THEN RaisedPage
    ELSE PaginateFirestore(Ordered(all_categories, q), q.page, q.per_page)

\* The orders a list can be left in: its permutations.
Permuted(seq) ==
    {[k \in 1..Len(seq) |-> seq[f[k]]] :
        f \in {g \in [1..Len(seq) -> 1..Len(seq)] :
                  \A i, j \in 1..Len(seq) : i # j => g[i] # g[j]}}

\* Lines 52-83: what the list returned by get_all() can hold after the
\* handler.  A filter builds a new list; without one filtered_categories is
\* the returned list itself (line 55) and line 83 sorts it in place.  A sort
\* that raises leaves the list in some order.
AllCategoriesAfter(all_categories, q) ==
    IF q.search # <<>> \/ q.status # Missing THEN {all_categories}
    ELSE IF ListingRaises(all_categories, q) THEN Permuted(all_categories)
    ELSE {Ordered(all_categories, q)}

\* get_file_categories answers query q, the request of this behaviour.
GetFileCategories(q) ==
    /\ pc = "idle"
    /\ query = NoQuery
    /\ query' = q
    /\ page_fc' = FileCategoriesPage(categories, q)
    /\ ordered' = (IF ListingRaises(categories, q) THEN <<>> ELSE Ordered(categories, q))
    /\ page_users' = NoPage
    /\ fetched' = TRUE
    /\ all_categories_after' \in AllCategoriesAfter(categories, q)
    /\ UNCHANGED <<categories, provVars, valVars, authVars, catVars, userVars>>

\* @validate_query_params(FileCategoryQuerySchema): the arguments of the
\* request are validated; get_file_categories is called with the validated
\* data, or the request is refused without calling it.
ValidateQueryParams(args) ==
    /\ pc = "idle"
    /\ request_args = NoArgs
    /\ request_args' = args
    /\ IF SchemaAccepts(args)
       THEN GetFileCategories(Validated(args))
       ELSE /\ page_fc' = RejectedPage
            /\ UNCHANGED <<categories, query, ordered, page_users, fetched,
                           all_categories_after, provVars, valVars, authVars, catVars, userVars>>

\* ------------------------------------------------------- listing: get_users

\* Lines 46-54: or_(column.ilike('%term%'), ...); a NULL column matches nothing.
IlikeAny(row, search) ==
    \/ Contains(Lower(row.code), Lower(search))
    \/ (row.name # <<>> /\ Contains(Lower(row.name), Lower(search)))
    \/ (row.description # <<>> /\ Contains(Lower(row.description), Lower(search)))

\* Lines 43-62: the rows the WHERE clause keeps.
Selected(rows, q) ==
    LET searched == IF q.search # <<>>
                    THEN SelectSeq(rows, LAMBDA row : IlikeAny(row, q.search))
                    ELSE rows
    IN IF q.status # Missing
       THEN SelectSeq(searched, LAMBDA row : row.status = q.status)
       ELSE searched

\* Line 65: getattr(User, sort, User.created_date)
SortColumn(sort) == IF sort \in RecordFields THEN sort ELSE "created_date"

\* The value ORDER BY compares: NULL is below or above every value, as the
\* database has it; rank 1 is a value.
ColumnKey(row, column, nulls_first) ==
    LET null == [rank |-> IF nulls_first THEN 0 ELSE 2, key |-> StrKey(<<>>)]
    IN IF column = "created_date"
       THEN IF row.created_date = <<>> THEN null
            ELSE [rank |-> 1, key |-> NumKey(row.created_date[1])]
       ELSE IF column \in {"name", "description"} /\ StrField(row, column) = <<>> THEN null
       ELSE [rank |-> 1, key |-> StrKey(StrField(row, column))]

ColumnLess(a, b) ==
    a.rank < b.rank \/ (a.rank = b.rank /\ a.rank = 1 /\ KeyLess(a.key, b.key))

\* Lines 65-69: the orders ORDER BY column ASC/DESC can return the rows in:
\* every arrangement with no pair out of order (rows with equal values come
\* in any order).
OrderedRows(rows, q, nulls_first) ==
    LET n == Len(rows)
        k(row) == ColumnKey(row, SortColumn(q.sort), nulls_first)
    IN {[i \in 1..n |-> rows[p[i]]] :
          p \in {f \in [1..n -> 1..n] :
                   /\ \A i, j \in 1..n : i # j => f[i] # f[j]
                   /\ \A i, j \in 1..n : i < j =>
                         IF q.order = "desc" THEN ~ColumnLess(k(rows[f[i]]), k(rows[f[j]]))
                         ELSE ~ColumnLess(k(rows[f[j]]), k(rows[f[i]]))}}

\* Lines 72-76: query.paginate(page, per_page, error_out=False), over the
\* rows in the order the database returned them.
Paginate(rows, page, per_page) ==
    LET total == Len(rows)
        pages == IF total = 0 THEN 0 ELSE (total + per_page - 1) \div per_page
    IN Page(200, SubSeq(rows, Min((page - 1) * per_page, total) + 1,
                        Min((page - 1) * per_page + per_page, total)),
            total, pages, page < pages, page > 1)

\* get_users answers the query that get_file_categories just answered, over
\* a table holding the same records.
GetUsers ==
    /\ pc = "idle"
    /\ query # NoQuery
    /\ page_users = NoPage
    /\ \E nulls_first \in BOOLEAN :
         \E rows \in OrderedRows(Selected(categories, query), query, nulls_first) :
            page_users' = Paginate(rows, query.page, query.per_page)
    /\ UNCHANGED <<categories, query, page_fc, ordered, request_args, fetched,
                   all_categories_after, provVars, valVars, authVars, catVars, userVars>>

\* --------------------------------------------- file categories: the handlers

\* The workers that serve requests concurrently.
Workers == 1..2

\* str.upper() on the letters that occur in the codes.
UpperChar(c) ==
    CASE c = "a" -> "A"
      [] c = "b" -> "B"
      [] OTHER -> c

Upper(s) == [k \in 1..Len(s) |-> UpperChar(s[k])]

\* A FileCategory object; id 0: not stored yet.
FileCategory(id, code, status) == [id |-> id, code |-> code, status |-> status]

NoObject == FileCategory(0, <<>>, Missing)

\* The ids the store can give out.
CategoryIds == 1..(2 + MaxRequests)

\* FileCategory.get_by_id(category_id): the stored category with that id.
GetById(stored, category_id) == {c \in stored : c.id = category_id}

\* FileCategory.code_exists(code, exclude_id): a stored category other than
\* exclude_id has the code (exclude_id 0: none is excluded).
CodeExists(stored, code, exclude_id) ==
    \E c \in stored : c.code = code /\ c.id # exclude_id

\* file_category.save(): the document of the object's id is written.
Save(stored, obj) == {c \in stored : c.id # obj.id} \cup {obj}

\* file_category.delete(): the document of the object's id is removed.
Delete(stored, obj) == {c \in stored : c.id # obj.id}

\* A validated request to a file category handler.  code <<>>: none given.
FcRequest(op, role, id, code, status) ==
    [op |-> op, role |-> role, id |-> id, code |-> code, status |-> status]

NoFcRequest == FcRequest("none", "user", 0, <<>>, Missing)

\* The bodies FileCategoryCreateSchema and FileCategoryUpdateSchema accept,
\* from callers that @jwt_required lets through.
FcRequests ==
    {FcRequest("create", "admin", 0, c, "active") : c \in {<<"a">>, <<"B">>}}
        \cup {FcRequest("update", "admin", i, c, Missing) :
                 i \in 1..2, c \in {<<"a">>, <<"b">>}}
        \cup {FcRequest("update", "admin", i, <<>>, "inactive") : i \in 1..2}
        \cup {FcRequest("delete", "admin", i, <<>>, Missing) : i \in 1..2}
        \cup {FcRequest("create", "user", 0, <<"a">>, "active"),
              FcRequest("update", "user", 1, <<"a">>, Missing),
              FcRequest("delete", "user", 1, <<>>, Missing)}

\* A response: its status code and the code of its error, if it is one.
FcAnswer(code, error) == [code |-> code, error |-> error]

NoFcAnswer == FcAnswer(0, Missing)

\* An entry of the activity log.
Activity(event_type, code) == [event_type |-> event_type, code |-> code]

\* Lines 15-26: require_admin() returns an error response.
RequireAdminError(role) == role \notin {"admin", "superadmin"}

\* Line 241 with the bound off by one.
InUseMoreThanOne(count) == count > 1

\* Line 241: if user_count > 0
InUse(count) == count > 0

\* Worker w takes request r.
Receive(w, r) ==
    /\ fc_pc[w] = "idle"
    /\ fc_started < MaxRequests
    /\ fc_started' = fc_started + 1
    /\ fc_req' = [fc_req EXCEPT ![w] = r]

\* Worker w returns response a.
Respond(w, a) ==
    /\ fc_ans' = [fc_ans EXCEPT ![w] = a]
    /\ fc_pc' = [fc_pc EXCEPT ![w] = "idle"]
    /\ fc_obj' = [fc_obj EXCEPT ![w] = NoObject]

\* Worker w goes on to position p with the object obj.
Proceed(w, p, obj) ==
    /\ fc_ans' = [fc_ans EXCEPT ![w] = NoFcAnswer]
    /\ fc_pc' = [fc_pc EXCEPT ![w] = p]
    /\ fc_obj' = [fc_obj EXCEPT ![w] = obj]

\* Lines 104-128: create_file_category up to the object it builds.
CreateCheck(w, r) ==
    /\ r.op = "create"
    /\ Receive(w, r)
    /\ IF RequireAdminError(r.role) THEN Respond(w, FcAnswer(403, "FORBIDDEN"))
       ELSE IF CodeExists(fc_store, Upper(r.code), 0)
       THEN Respond(w, FcAnswer(409, "CATEGORY_EXISTS"))
       ELSE Proceed(w, "create_checked", FileCategory(0, Upper(r.code), r.status))
    /\ UNCHANGED <<fc_store, user_count, activity, fc_next_id,
                   provVars, listVars, valVars, authVars, userVars>>

\* Lines 129-144: the new category is saved and the activity logged.
CreateSave(w) ==
    /\ fc_pc[w] = "create_checked"
    /\ fc_store' = Save(fc_store, [fc_obj[w] EXCEPT !.id = fc_next_id])
    /\ fc_next_id' = fc_next_id + 1
    /\ activity' = Append(activity, Activity("file_category_created", fc_obj[w].code))
    /\ Respond(w, FcAnswer(201, Missing))
    /\ UNCHANGED <<user_count, fc_started, fc_req, provVars, listVars, valVars, authVars, userVars>>

\* Lines 166-180: update_file_category up to the category it loads.
UpdateLoad(w, r) ==
    /\ r.op = "update"
    /\ Receive(w, r)
    /\ IF RequireAdminError(r.role) THEN Respond(w, FcAnswer(403, "FORBIDDEN"))
       ELSE IF GetById(fc_store, r.id) = {}
       THEN Respond(w, FcAnswer(404, "CATEGORY_NOT_FOUND"))
       ELSE \E c \in GetById(fc_store, r.id) : Proceed(w, "update_loaded", c)
    /\ UNCHANGED <<fc_store, user_count, activity, fc_next_id,
                   provVars, listVars, valVars, authVars, userVars>>

\* Lines 182-202: the code is checked and the fields of the object are set.
UpdateCheck(w) ==
    /\ fc_pc[w] = "update_loaded"
    /\ LET r == fc_req[w]
           coded == IF r.code # <<>> THEN [fc_obj[w] EXCEPT !.code = Upper(r.code)]
                    ELSE fc_obj[w]
           updated == IF r.status # Missing THEN [coded EXCEPT !.status = r.status]
                      ELSE coded
       IN IF r.code # <<>> /\ CodeExists(fc_store, Upper(r.code), r.id)
          THEN Respond(w, FcAnswer(409, "CATEGORY_EXISTS"))
          ELSE Proceed(w, "update_checked", updated)
    /\ UNCHANGED <<fc_store, user_count, activity, fc_next_id, fc_started, fc_req,
                   provVars, listVars, valVars, authVars, userVars>>

\* Lines 204-219: the category is saved and the activity logged.
UpdateSave(w) ==
    /\ fc_pc[w] = "update_checked"
    /\ fc_store' = Save(fc_store, fc_obj[w])
    /\ activity' = Append(activity, Activity("file_category_updated", fc_obj[w].code))
    /\ Respond(w, FcAnswer(200, Missing))
    /\ UNCHANGED <<user_count, fc_next_id, fc_started, fc_req,
                   provVars, listVars, valVars, authVars, userVars>>

\* Lines 224-237: delete_file_category up to the category it loads.
DeleteLoad(w, r) ==
    /\ r.op = "delete"
    /\ Receive(w, r)
    /\ IF RequireAdminError(r.role) THEN Respond(w, FcAnswer(403, "FORBIDDEN"))
       ELSE IF GetById(fc_store, r.id) = {}
       THEN Respond(w, FcAnswer(404, "CATEGORY_NOT_FOUND"))
       ELSE \E c \in GetById(fc_store, r.id) : Proceed(w, "delete_loaded", c)
    /\ UNCHANGED <<fc_store, user_count, activity, fc_next_id,
                   provVars, listVars, valVars, authVars, userVars>>

\* Lines 240-247: a category that is assigned to users is refused.
DeleteCheck(w) ==
    /\ fc_pc[w] = "delete_loaded"
    /\ IF InUse(user_count[fc_obj[w].id])
       THEN Respond(w, FcAnswer(400, "CATEGORY_IN_USE"))
       ELSE Proceed(w, "delete_checked", fc_obj[w])
    /\ UNCHANGED <<fc_store, user_count, activity, fc_next_id, fc_started, fc_req,
                   provVars, listVars, valVars, authVars, userVars>>

\* Lines 249-264: the category is deleted and the activity logged.
DeleteRemove(w) ==
    /\ fc_pc[w] = "delete_checked"
    /\ fc_store' = Delete(fc_store, fc_obj[w])
    /\ activity' = Append(activity, Activity("file_category_deleted", fc_obj[w].code))
    /\ Respond(w, FcAnswer(200, Missing))
    /\ UNCHANGED <<user_count, fc_next_id, fc_started, fc_req,
                   provVars, listVars, valVars, authVars, userVars>>

\* ------------------------------------------ users: create_user and update_user

\* The e-mail addresses that requests carry.
Emails == {"e1", "e2", "e3"}

\* user.set_password(password): the hash stored in password_hash.
PasswordHash(password) ==
    CASE password = "pw1" -> "hash(pw1)"
      [] password = "pw2" -> "hash(pw2)"
      [] OTHER -> Missing

\* A row of the users table; password_hash is Missing when NULL.
User(id, email, password_hash, is_sso_user) ==
    [id |-> id, email |-> email, password_hash |-> password_hash,
     is_sso_user |-> is_sso_user]

\* The JSON body of a request and the role of its caller; id 0 for a
\* creation.  email and password are Missing when the body has none.
UserRequest(op, role, id, is_sso_user, email, password) ==
    [op |-> op, role |-> role, id |-> id, is_sso_user |-> is_sso_user,
     email |-> email, password |-> password]

NoUserRequest == UserRequest("none", "user", 0, FALSE, Missing, Missing)

UserRequests ==
    {UserRequest("create", "admin", 0, sso, e, p) :
        sso \in BOOLEAN, e \in Emails, p \in {Missing, "pw1"}}
        \cup {UserRequest("update", "admin", i, FALSE, e, p) :
                 i \in 1..MaxUsers, e \in Emails \cup {Missing}, p \in {Missing, "pw2"}}
        \cup {UserRequest("create", "user", 0, TRUE, "e1", Missing),
              UserRequest("update", "user", 1, FALSE, "e2", "pw2")}

\* Lines 104-118: what the validation of a creation body can give.  A
\* regular user needs a password; the schema of an SSO user has none, and a
\* password in the body is either ignored or refused by it.
CreateValidations(r) ==
    IF r.is_sso_user
    THEN IF r.password = Missing THEN {"ok"} ELSE {"ok", "VALIDATION_ERROR"}
    ELSE IF r.password = Missing THEN {"VALIDATION_ERROR"} ELSE {"ok"}

\* User.query.filter_by(email=email).first(), other than row exclude_id.
EmailExists(rows, email, exclude_id) ==
    \E u \in rows : u.email = email /\ u.id # exclude_id

\* Lines 129-140: the user object create_user builds.
NewUser(id, r) ==
    User(id, r.email,
         IF ~r.is_sso_user /\ r.password # Missing THEN PasswordHash(r.password)
         ELSE Missing,
         r.is_sso_user)

\* Lines 93-166: create_user.
CreateUser(r) ==
    /\ r.op = "create"
    /\ user_next_id <= MaxUsers
    /\ user_req' = r
    /\ IF RequireAdminError(r.role)
       THEN /\ user_ans' = FcAnswer(403, "FORBIDDEN")
            /\ UNCHANGED <<users, user_next_id>>
       ELSE \E validation_result \in CreateValidations(r) :
               IF validation_result # "ok"
               THEN /\ user_ans' = FcAnswer(400, "VALIDATION_ERROR")
                    /\ UNCHANGED <<users, user_next_id>>
               ELSE IF EmailExists(users, r.email, 0)
               THEN /\ user_ans' = FcAnswer(409, "EMAIL_EXISTS")
                    /\ UNCHANGED <<users, user_next_id>>
               ELSE /\ users' = users \cup {NewUser(user_next_id, r)}
                    /\ user_next_id' = user_next_id + 1
                    /\ user_ans' = FcAnswer(201, Missing)
    /\ UNCHANGED <<provVars, listVars, valVars, authVars, catVars>>

\* Lines 223-225 with the test for an SSO user left out.
PasswordRefusedNever(user, r) == FALSE

\* Lines 223-225: a password is sent for an SSO user.
PasswordRefused(user, r) == r.password # Missing /\ user.is_sso_user

\* Lines 208-232: the user object after the assignments of update_user.
Assigned(user, r) ==
    LET mailed == IF r.email # Missing THEN [user EXCEPT !.email = r.email] ELSE user
    IN IF r.password # Missing
       THEN [mailed EXCEPT !.password_hash = PasswordHash(r.password)]
       ELSE mailed

\* Line 253: db.session.commit() writes the changed row.
Commit(rows, user) == {u \in rows : u.id # user.id} \cup {user}

\* Lines 192-269: update_user.  A response returned before line 253 ends
\* the request without a commit, and the session of the request is dropped
\* with the assignments made so far.
UpdateUser(r) ==
    /\ r.op = "update"
    /\ user_req' = r
    /\ UNCHANGED user_next_id
    /\ IF RequireAdminError(r.role)
       THEN user_ans' = FcAnswer(403, "FORBIDDEN") /\ UNCHANGED users
       ELSE IF {u \in users : u.id = r.id} = {}
       THEN user_ans' = FcAnswer(404, "USER_NOT_FOUND") /\ UNCHANGED users
       ELSE \E user \in {u \in users : u.id = r.id} :
               IF r.email # Missing /\ EmailExists(users, r.email, r.id)
               THEN user_ans' = FcAnswer(409, "EMAIL_EXISTS") /\ UNCHANGED users
               ELSE IF PasswordRefused(user, r)
               THEN user_ans' = FcAnswer(400, "INVALID_OPERATION") /\ UNCHANGED users
               ELSE /\ users' = Commit(users, Assigned(user, r))
                    /\ user_ans' = FcAnswer(200, Missing)
    /\ UNCHANGED <<provVars, listVars, valVars, authVars, catVars>>

\* ------------------------------------------------------------ specifications

\* No listing request and no validation request has been made.
ListIdle ==
    /\ categories = <<>>
    /\ query = NoQuery
    /\ page_fc = NoPage
    /\ ordered = <<>>
    /\ page_users = NoPage
    /\ request_args = NoArgs
    /\ fetched = FALSE
    /\ all_categories_after = <<>>
    /\ validation = NoValidation

\* No request to create_indexes has been made.
AuthIdle ==
    /\ method = "POST"
    /\ token = NoToken
    /\ file_read = FALSE
    /\ client_built = FALSE

\* No request to a file category handler has been made.
CatIdle ==
    /\ fc_store = {}
    /\ user_count = [i \in CategoryIds |-> 0]
    /\ activity = <<>>
    /\ fc_next_id = 1
    /\ fc_started = 0
    /\ fc_req = [w \in Workers |-> NoFcRequest]
    /\ fc_pc = [w \in Workers |-> "idle"]
    /\ fc_obj = [w \in Workers |-> NoObject]
    /\ fc_ans = [w \in Workers |-> NoFcAnswer]

\* No request to create_user or update_user has been made.
UserIdle ==
    /\ users = {}
    /\ user_next_id = 1
    /\ user_req = NoUserRequest
    /\ user_ans = NoFcAnswer

\* A request to create_indexes arrives; firestore.indexes.json holds a list.
InitProvision ==
    /\ indexes_to_create \in IndexFiles
    /\ method \in {"POST", "OPTIONS"}
    /\ token \in Tokens
    /\ file_read = FALSE
    /\ client_built = FALSE
    /\ pc = "entry"
    /\ pos = 1
    /\ results = <<>>
    /\ has_errors = FALSE
    /\ response = NoResponse
    /\ requests = <<>>
    /\ run = 1
    /\ first = NoFirst

Init ==
    /\ InitProvision
    /\ remote = {}
    /\ ListIdle
    /\ CatIdle
    /\ UserIdle

\* One invocation of create_indexes; the remote API answers as it pleases.
Next ==
    \/ Authorize
    \/ Begin
    \/ SkipMissingCollection
    \/ SkipNoFields
    \/ NameRaises
    \/ \E a \in RemoteAnswers : Create(a)
    \/ Finish

Spec == Init /\ [][Next]_vars

\* The answers open to a remote API that keeps the set `remote`.
KeepingAnswers(index_def) ==
    IF IndexKey(index_def) \in remote THEN ConflictAnswers ELSE FreshAnswers

\* create_indexes is invoked a second time on the same file.
InvokeAgain ==
    /\ run = 1
    /\ pc \in {"done", "raised"}
    /\ first' = [pc |-> pc, results |-> results, has_errors |-> has_errors,
                 remote |-> remote]
    /\ run' = 2
    /\ pc' = "entry"
    /\ pos' = 1
    /\ results' = <<>>
    /\ has_errors' = FALSE
    /\ response' = NoResponse
    /\ requests' = <<>>
    /\ file_read' = FALSE
    /\ client_built' = FALSE
    /\ UNCHANGED <<indexes_to_create, remote, listVars, valVars, catVars, userVars,
                   method, token>>

InitRerun ==
    /\ InitProvision
    /\ remote \in {{}, {IndexKey(DefUsers)}}
    /\ ListIdle
    /\ CatIdle
    /\ UserIdle

\* Two invocations against a remote API that keeps the indexes it accepted.
NextRerun ==
    \/ Authorize
    \/ Begin
    \/ SkipMissingCollection
    \/ SkipNoFields
    \/ NameRaises
    \/ \E a \in RemoteAnswers : InLoop /\ a \in KeepingAnswers(CurrentDef) /\ Create(a)
    \/ Finish
    \/ InvokeAgain

SpecRerun == InitRerun /\ [][NextRerun]_vars

\* The listing handlers run over a store that holds some collection.
InitList ==
    /\ categories \in Collections
    /\ query = NoQuery
    /\ page_fc = NoPage
    /\ page_users = NoPage
    /\ ordered = <<>>
    /\ request_args = NoArgs
    /\ fetched = FALSE
    /\ all_categories_after = <<>>
    /\ validation = NoValidation
    /\ indexes_to_create = <<>>
    /\ pc = "idle"
    /\ pos = 1
    /\ results = <<>>
    /\ has_errors = FALSE
    /\ response = NoResponse
    /\ requests = <<>>
    /\ remote = {}
    /\ run = 1
    /\ first = NoFirst
    /\ AuthIdle
    /\ CatIdle
    /\ UserIdle

NextList ==
    \/ \E args \in RawRequests : ValidateQueryParams(args)
    \/ GetUsers

SpecList == InitList /\ [][NextList]_vars

\* validate_indexes is entered with the file's list read.
InitValidate ==
    /\ indexes_to_create \in ValidatorFiles
    /\ pc = "idle"
    /\ pos = 1
    /\ results = <<>>
    /\ has_errors = FALSE
    /\ response = NoResponse
    /\ requests = <<>>
    /\ remote = {}
    /\ run = 1
    /\ first = NoFirst
    /\ ListIdle
    /\ AuthIdle
    /\ CatIdle
    /\ UserIdle

NextValidate == ValidateIndexes

SpecValidate == InitValidate /\ [][NextValidate]_vars

\* validate_indexes and create_indexes are both invoked on the same file, the
\* validation before, during or after the provisioning run.
NextConfig ==
    \/ ValidateIndexes
    \/ Next

SpecConfig == Init /\ [][NextConfig]_vars

\* The collections of file categories the store can hold at first, with the
\* ids the store gave them.
InitialStores ==
    {{},
     {FileCategory(1, <<"A">>, "active")},
     {FileCategory(1, <<"A">>, "active"), FileCategory(2, <<"B">>, "active")}}

\* The file category handlers serve requests over a store that holds some
\* categories, some of them assigned to a user.
InitCategories ==
    /\ fc_store \in InitialStores
    /\ user_count \in [CategoryIds -> 0..1]
    /\ \A i \in CategoryIds : user_count[i] > 0 => GetById(fc_store, i) # {}
    /\ activity = <<>>
    /\ fc_next_id = Cardinality(fc_store) + 1
    /\ fc_started = 0
    /\ fc_req = [w \in Workers |-> NoFcRequest]
    /\ fc_pc = [w \in Workers |-> "idle"]
    /\ fc_obj = [w \in Workers |-> NoObject]
    /\ fc_ans = [w \in Workers |-> NoFcAnswer]
    /\ indexes_to_create = <<>>
    /\ pc = "idle"
    /\ pos = 1
    /\ results = <<>>
    /\ has_errors = FALSE
    /\ response = NoResponse
    /\ requests = <<>>
    /\ remote = {}
    /\ run = 1
    /\ first = NoFirst
    /\ ListIdle
    /\ AuthIdle
    /\ UserIdle

\* The workers take requests and run the handlers step by step, each store
\* access of a handler being one step.
NextCategories ==
    \E w \in Workers :
        \/ \E r \in FcRequests : CreateCheck(w, r)
        \/ CreateSave(w)
        \/ \E r \in FcRequests : UpdateLoad(w, r)
        \/ UpdateCheck(w)
        \/ UpdateSave(w)
        \/ \E r \in FcRequests : DeleteLoad(w, r)
        \/ DeleteCheck(w)
        \/ DeleteRemove(w)

SpecCategories == InitCategories /\ [][NextCategories]_vars

\* The tables the handlers can start from: users with a password, and SSO
\* users, who have none.
InitialUsers ==
    {{},
     {User(1, "e1", PasswordHash("pw1"), FALSE)},
     {User(1, "e1", Missing, TRUE)},
     {User(1, "e1", PasswordHash("pw1"), FALSE), User(2, "e2", Missing, TRUE)}}

InitUsers ==
    /\ users \in InitialUsers
    /\ user_next_id = Cardinality(users) + 1
    /\ user_req = NoUserRequest
    /\ user_ans = NoFcAnswer
    /\ indexes_to_create = <<>>
    /\ pc = "idle"
    /\ pos = 1
    /\ results = <<>>
    /\ has_errors = FALSE
    /\ response = NoResponse
    /\ requests = <<>>
    /\ remote = {}
    /\ run = 1
    /\ first = NoFirst
    /\ ListIdle
    /\ AuthIdle
    /\ CatIdle

\* Any sequence of requests to create_user and update_user.
NextUsers ==
    \E r \in UserRequests :
        \/ CreateUser(r)
        \/ UpdateUser(r)

SpecUsers == InitUsers /\ [][NextUsers]_vars

\* ------------------------------------------------------ claims: provisioning

Statuses(outcomes) == [k \in 1..Len(outcomes) |-> outcomes[k].status]

\* The body of an error answer mentions "already exists" in some casing.
MentionsExists(a) == Contains(Lower(a.text), NeedleExists)

\* The exception that ended the run was raised before any request of the
\* current definition was sent: the definition itself caused it.
RaisedOnDefinition ==
    pc = "raised" /\ \A k \in 1..Len(requests) : requests[k].at # pos

\* The exception that ended the run was raised after the current definition's
\* request was answered: the handling of the answer caused it.
RaisedOnAnswer ==
    pc = "raised" /\ \E k \in 1..Len(requests) : requests[k].at = pos

\* C1: whatever the definitions are (also with a missing collectionGroup,
\* missing or empty fields, or a field with 'order'/'arrayConfig' but no
\* 'fieldPath'), no definition makes the loop raise, and a finished loop holds
\* one outcome per definition.
C1_NoDefinitionRaises ==
    /\ ~RaisedOnDefinition
    /\ (pc = "done" => Len(results) = Len(indexes_to_create))

\* C2: every request answered by an exception (whatever the error body) has
\* its outcome recorded as an error of that definition (Exists for a conflict),
\* and the exception never ends the batch.
C2_AnswerExceptionsAreCaught ==
    /\ ~RaisedOnAnswer
    /\ \A k \in 1..Len(requests) :
          requests[k].answer.kind # "accept"
              => /\ Len(results) >= requests[k].at
                 /\ results[requests[k].at].status \in {"Error", "Exists"}

\* C3: in a batch of 3 valid definitions whose first and third requests are
\* accepted, a second request answered "already exists" gives
\* [Initiated, Exists, Initiated] with has_errors false, and one answered by a
\* 500 error gives [Initiated, Error, Initiated] with has_errors true.
C3_IndependentOutcomes ==
    (/\ Len(indexes_to_create) = 3
     /\ \A k \in 1..3 : Submittable(indexes_to_create[k])
     /\ Len(requests) >= 2
     /\ requests[1].answer.kind = "accept"
     /\ requests[2].answer.kind = "http")
    => LET a2 == requests[2].answer
           conflict == a2.status = 409 \/ MentionsExists(a2)
       IN /\ pc # "raised"
          /\ Len(results) >= 2
          /\ results[1].status = "Initiated"
          /\ results[2].status = (IF conflict THEN "Exists" ELSE "Error")
          /\ (pc = "done" /\ requests[3].answer.kind = "accept"
                => /\ Statuses(results) =
                        <<"Initiated", IF conflict THEN "Exists" ELSE "Error", "Initiated">>
                   /\ has_errors = ~conflict)

\* C4 (state part): has_errors is true exactly when an outcome collected so
\* far is Skipped or Error, and the response is 207 "Completed with
\* Errors/Skips" exactly when has_errors is true, otherwise 200 "Completed".
HasErrorsMatchesOutcomes ==
    /\ has_errors = (\E k \in 1..Len(results) : results[k].status \in {"Skipped", "Error"})
    /\ (pc = "done" /\ indexes_to_create # <<>>
          => response = (IF has_errors
                         THEN [code |-> 207, status |-> "Completed with Errors/Skips"]
                         ELSE [code |-> 200, status |-> "Completed"]))
    /\ (response.code = 207 => pc = "done" /\ has_errors)
    /\ (response.status = "Completed" => pc = "done" /\ ~has_errors)

\* C4: the state part holds at every point of the loop and in the final
\* result, and while the loop runs has_errors, once true, stays true.
C4_HasErrorsIffSkippedOrError ==
    /\ []HasErrorsMatchesOutcomes
    /\ [][(pc = "loop" /\ has_errors) => has_errors']_vars

\* C4 witness: a finished batch answered 207 that holds a Skipped, an Exists
\* and an Initiated outcome.
C4_Witness ==
    /\ pc = "done"
    /\ response.code = 207
    /\ \E k \in 1..Len(results) : results[k].status = "Skipped"
    /\ \E k \in 1..Len(results) : results[k].status = "Exists"
    /\ \E k \in 1..Len(results) : results[k].status = "Initiated"

\* The outcome names the definition: "Unknown" without a collectionGroup,
\* otherwise a label that starts with the definition's collection.
OutcomeBelongsTo(outcome, index_def) ==
    IF CollectionMissing(index_def) THEN outcome.index = <<"Unknown">>
    ELSE outcome.index[1] = index_def.collectionGroup

\* C5: a run over n definitions produces exactly n outcomes, the k-th for the
\* k-th definition, and the requests reach the remote API in input order, each
\* one only after the outcomes of all earlier definitions are recorded.
C5_OneOutcomePerDefinitionInOrder ==
    /\ pc # "raised"
    /\ (pc = "done" => Len(results) = Len(indexes_to_create))
    /\ \A k \in 1..Len(results) : OutcomeBelongsTo(results[k], indexes_to_create[k])
    /\ \A j, k \in 1..Len(requests) : j < k => requests[j].at < requests[k].at
    /\ \A k \in 1..Len(requests) : requests[k].seen = requests[k].at - 1

\* C6: a request answered by a remote error is recorded as Exists (has_errors
\* untouched) exactly when the status is 409 or the body contains "already
\* exists" in any casing; every other remote error is recorded as Error, sets
\* has_errors, and carries the payload's message when the body is structured,
\* otherwise the raw error string.
C6_RemoteErrorClassification ==
    \A k \in 1..Len(requests) :
        LET a == requests[k].answer
            at == requests[k].at
        IN a.kind = "http"
            => /\ Len(results) >= at
               /\ (results[at].status = "Exists") = (a.status = 409 \/ MentionsExists(a))
               /\ (results[at].status # "Exists"
                     => /\ results[at].status = "Error"
                        /\ has_errors
                        /\ IF a.form \in {"message", "messagedetails"}
                           THEN SubSeq(results[at].detail, 1, Len(a.text)) = a.text
                           ELSE results[at].detail = RawError(a))

Unusable(index_def) ==
    \/ index_def.collectionGroup \in {Missing, ""}
    \/ ~index_def.hasFields
    \/ \A k \in 1..Len(index_def.fields) :
          /\ index_def.fields[k].fieldPath = Missing
          /\ index_def.fields[k].order = Missing
          /\ index_def.fields[k].arrayConfig = Missing

\* The requests submitted for the definition at position k.
RequestsFor(k) == {r \in 1..Len(requests) : requests[r].at = k}

\* C19: the outcome of a definition is Skipped exactly when its collection is
\* missing or empty or its fields map to no field descriptor; no creation
\* request is ever submitted for such a definition, and has_errors is set once
\* a definition was skipped.
C19_SkippedExactlyWhenUnusable ==
    /\ \A k \in 1..Len(results) :
          /\ (results[k].status = "Skipped") = Unusable(indexes_to_create[k])
          /\ (results[k].status = "Skipped" => has_errors /\ RequestsFor(k) = {})
    /\ \A r \in 1..Len(requests) : ~Unusable(indexes_to_create[requests[r].at])
    /\ (pc = "raised" => ~Unusable(indexes_to_create[pos]))

\* C19 witness: a finished run that skipped a definition with an empty
\* collection and one whose only field has no key, and submitted a request
\* for a third.
C19_Witness ==
    /\ pc = "done"
    /\ Len(results) = 3
    /\ \E k \in 1..3 : indexes_to_create[k] = DefEmptyCollection /\ results[k].status = "Skipped"
    /\ \E k \in 1..3 : indexes_to_create[k] = DefEmptyFields /\ results[k].status = "Skipped"
    /\ Len(requests) = 1
    /\ has_errors

\* C20: in a run that ended, exactly one creation request was submitted for
\* every definition that is not to be skipped and none for the others (no
\* request is repeated after an error); the remote API is called for nothing
\* else; an accepted request is reported as Initiated with the operation's
\* name in the detail.
C20_OneRequestPerDefinition ==
    /\ \A k \in 1..Len(indexes_to_create) : Cardinality(RequestsFor(k)) <= 1
    /\ \A r \in 1..Len(requests) :
          requests[r].answer.kind = "accept"
              => /\ Len(results) >= requests[r].at
                 /\ results[requests[r].at].status = "Initiated"
                 /\ results[requests[r].at].detail =
                        <<"Operation: ">> \o requests[r].answer.text
    /\ (pc \in {"done", "raised"}
          => \A k \in 1..Len(indexes_to_create) :
                Cardinality(RequestsFor(k)) =
                    (IF Unusable(indexes_to_create[k]) THEN 0 ELSE 1))

\* The definition a request was submitted for.
DefinitionOf(request) == indexes_to_create[request.at]

\* The field has both 'order' and 'arrayConfig'.
HasBoth(field) == field.order # Missing /\ field.arrayConfig # Missing

\* The part of the label that names a field when arrayConfig has precedence.
LabelPartArrayFirst(field) ==
    IF field.arrayConfig # Missing THEN <<field.fieldPath, " ARRAY_CONTAINS">>
    ELSE <<field.fieldPath, " ", field.order>>

\* The label of a definition when arrayConfig has precedence.
LabelArrayFirst(index_def, fields) ==
    <<index_def.collectionGroup, " (">>
        \o JoinParts([k \in 1..Len(fields) |-> LabelPartArrayFirst(fields[k])])
        \o <<")">>

\* C22: for a field with both 'order' and 'arrayConfig' the field descriptor
\* submitted to the remote API carries the arrayConfig and no order, and the
\* label reported for the definition names the field by ARRAY_CONTAINS.
C22_ArrayConfigTakesPrecedence ==
    \A r \in 1..Len(requests) :
        LET sent == requests[r].body.fields
        IN /\ \A k \in 1..Len(sent) :
                 HasBoth(sent[k]) => sent[k].order = Missing
           /\ \A k \in 1..Len(DefinitionOf(requests[r]).fields) :
                 HasBoth(DefinitionOf(requests[r]).fields[k])
                     => \E j \in 1..Len(sent) :
                           /\ sent[j].fieldPath = DefinitionOf(requests[r]).fields[k].fieldPath
                           /\ sent[j].arrayConfig =
                                  DefinitionOf(requests[r]).fields[k].arrayConfig
                           /\ sent[j].order = Missing
           /\ (Len(results) >= requests[r].at
                 => results[requests[r].at].index =
                        LabelArrayFirst(DefinitionOf(requests[r]), sent))

\* The fields of a definition that provide at least one of the three keys.
ProvidedFields(index_def) ==
    SelectSeq(index_def.fields,
              LAMBDA f : f.fieldPath # Missing \/ f.order # Missing \/ f.arrayConfig # Missing)

\* C23: the body of a submitted request holds, in input order, one descriptor
\* for every field of the definition that provides a key, with exactly the
\* fieldPath, order and arrayConfig the field provides and no other key; its
\* queryScope is the definition's, or COLLECTION when it has none; and the
\* parent path ends with the definition's collection.
C23_BodyPassesDefinitionThrough ==
    \A r \in 1..Len(requests) :
        LET index_def == DefinitionOf(requests[r])
            body == requests[r].body
            provided == ProvidedFields(index_def)
        IN /\ DOMAIN body = {"queryScope", "fields"}
           /\ Len(body.fields) = Len(provided)
           /\ \A k \in 1..Len(provided) :
                 /\ DOMAIN body.fields[k] = {"fieldPath", "order", "arrayConfig"}
                 /\ body.fields[k].fieldPath = provided[k].fieldPath
                 /\ body.fields[k].order = provided[k].order
                 /\ body.fields[k].arrayConfig = provided[k].arrayConfig
           /\ body.queryScope = (IF index_def.queryScope = Missing THEN "COLLECTION"
                                 ELSE index_def.queryScope)
           /\ requests[r].parent[Len(requests[r].parent)] = index_def.collectionGroup
           /\ requests[r].parent[Len(requests[r].parent) - 1] = "/"

\* C23 witness: a run that submitted a request for a definition with an array
\* field and no queryScope, and one for a definition with a queryScope, a
\* field with both keys and a field with none.
C23_Witness ==
    /\ pc = "done"
    /\ Len(requests) = 2
    /\ DefinitionOf(requests[1]) = DefUsers
    /\ requests[1].body.queryScope = "COLLECTION"
    /\ requests[1].body.fields[2].arrayConfig = "CONTAINS"
    /\ DefinitionOf(requests[2]) = DefOrders
    /\ requests[2].body.queryScope = "COLLECTION_GROUP"
    /\ Len(requests[2].body.fields) = 1

\* The caller's token carries the role 'superadmin'.
IsSuperadmin == token.present /\ token.role = "superadmin"

C8_BackendsAgree ==
    page_users.code # 0 => page_users = page_fc

\* C9: the items of a page are the contiguous slice of the filtered and
\* sorted set that starts at (page-1)*per_page: at most per_page items,
\* exactly per_page when that many remain, none when the start is at or past
\* the total.
C9_PageIsContiguousSlice ==
    page_fc.code = 200
    => LET start == (query.page - 1) * query.per_page
           total == Len(ordered)
           items == page_fc.items
       IN /\ page_fc.total = total
          /\ Len(items) <= query.per_page
          /\ \A k \in 1..Len(items) : start + k <= total /\ items[k] = ordered[start + k]
          /\ (total - start >= query.per_page => Len(items) = query.per_page)
          /\ (total - start < query.per_page /\ start < total => Len(items) = total - start)
          /\ (start >= total => items = <<>>)

\* C9 witness: a second page that holds the one record left over.
C9_Witness ==
    /\ page_fc.code = 200
    /\ query.page = 2
    /\ query.per_page = 2
    /\ page_fc.total = 3
    /\ Len(page_fc.items) = 1

\* C10: pages is the ceiling of total / per_page, and is 0 exactly when
\* total is 0.
C10_PagesIsCeiling ==
    page_fc.code = 200
    => /\ page_fc.pages * query.per_page >= page_fc.total
       /\ (page_fc.pages - 1) * query.per_page < page_fc.total
       /\ (page_fc.pages = 0) = (page_fc.total = 0)

\* C10 witness: 3 records in pages of 2 make 2 pages.
C10_Witness ==
    /\ page_fc.code = 200
    /\ page_fc.total = 3
    /\ query.per_page = 2
    /\ page_fc.pages = 2

\* `field` contains `term` when the case of the letters is ignored.
ContainsIgnoringCase(field, term) ==
    \E off \in 0..(Len(field) - Len(term)) :
        \A k \in 1..Len(term) : LowerChar(field[off + k]) = LowerChar(term[k])

\* The record matches the search term of q through a searchable field.
SatisfiesSearch(cat, q) ==
    \/ ContainsIgnoringCase(cat.code, q.search)
    \/ ContainsIgnoringCase(cat.name, q.search)
    \/ ContainsIgnoringCase(cat.description, q.search)

\* The record matches the search term (when given) and the filter (when given).
SatisfiesQuery(cat, q) ==
    /\ (q.search # <<>> => SatisfiesSearch(cat, q))
    /\ (q.status # Missing => cat.status = q.status)

\* The positions of the stored records that match q.
MatchingPositions(q) ==
    {k \in 1..Len(categories) : SatisfiesQuery(categories[k], q)}

\* C11: the total of a listing is the number of stored records that match the
\* search term (when given) and the status filter (when given), whatever the
\* page, per_page, sort field and order are, and every returned item matches
\* the search and the filter.
C11_TotalCountsMatches ==
    page_fc.code = 200
    => /\ page_fc.total = Cardinality(MatchingPositions(query))
       /\ \A k \in 1..Len(page_fc.items) : SatisfiesQuery(page_fc.items[k], query)

\* C11 witness: a second page of a listing with a search and a filter that
\* one of three records matches, sorted by name in descending order.
C11_Witness ==
    /\ page_fc.code = 200
    /\ query.search # <<>>
    /\ query.status # Missing
    /\ query.page = 2
    /\ query.sort = "name"
    /\ query.order = "desc"
    /\ Len(categories) = 3
    /\ page_fc.total = 1

\* The position of a record in the sequence the store handed out.
StorePosition(cat) == CHOOSE k \in 1..Len(categories) : categories[k] = cat

\* The sort key of a record under the query's sort field.
KeyOf(cat) == SortValue(cat, query.sort)

\* C12: in the sorted list no record comes before one with a smaller key
\* (order asc) or a greater key (order desc), and two records with equal keys
\* come in the order the store handed them out, for asc and for desc.
C12_SortIsStable ==
    page_fc.code = 200
    => \A i, j \in 1..Len(ordered) :
          i < j =>
             /\ IF query.order = "desc"
                THEN ~KeyLess(KeyOf(ordered[i]), KeyOf(ordered[j]))
                ELSE ~KeyLess(KeyOf(ordered[j]), KeyOf(ordered[i]))
             /\ ((/\ ~KeyLess(KeyOf(ordered[i]), KeyOf(ordered[j]))
                  /\ ~KeyLess(KeyOf(ordered[j]), KeyOf(ordered[i])))
                 => StorePosition(ordered[i]) < StorePosition(ordered[j]))

\* C12 witness: a descending sort of three records, two of which have equal
\* keys and the third a different one.
C12_Witness ==
    /\ page_fc.code = 200
    /\ query.order = "desc"
    /\ Len(ordered) = 3
    /\ \E i, j \in 1..3 :
          /\ i # j
          /\ KeyOf(ordered[i]) = KeyOf(ordered[j])
    /\ \E i, j \in 1..3 : KeyLess(KeyOf(ordered[i]), KeyOf(ordered[j]))

\* C13: with a search term, a stored record is kept exactly when it passes
\* the status filter and its code, name or description contains the term
\* ignoring case; a record whose name or description is None is not matched
\* through that field, and the search makes no listing fail.
C13_SearchIgnoresCase ==
    query.search # <<>>
    => /\ (query.sort = "code" => page_fc.code = 200)
       /\ (page_fc.code = 200
             => \A k \in 1..Len(categories) :
                   (\E i \in 1..Len(ordered) : ordered[i] = categories[k])
                       <=> /\ SatisfiesSearch(categories[k], query)
                           /\ (query.status # Missing
                                 => categories[k].status = query.status))

\* C13 witness: the term "E" keeps a record whose code is "E" and whose name
\* is None and a record whose description is "e", and drops a record whose
\* description is None.
C13_Witness ==
    /\ page_fc.code = 200
    /\ query.search = <<"E">>
    /\ query.status = Missing
    /\ Len(categories) = 3
    /\ Len(ordered) = 2
    /\ \E i \in 1..2 : ordered[i].code = <<"E">> /\ ordered[i].name = <<>>
    /\ \E i \in 1..2 : ordered[i].description = <<"e">>
    /\ \E k \in 1..3 :
          /\ categories[k].description = <<>>
          /\ \A i \in 1..2 : ordered[i] # categories[k]

\* C18: has_next is true exactly when page < pages, which is exactly when a
\* later page would hold a record, and has_prev exactly when page > 1; a
\* search that matches 2 of 5 records, asked for page 1 with per_page 2, gives
\* total 2, pages 1, 2 items and has_next false.
C18_HasNextHasPrev ==
    page_fc.code = 200
    => /\ page_fc.has_next = (query.page < page_fc.pages)
       /\ page_fc.has_next = (Len(ordered) > query.page * query.per_page)
       /\ page_fc.has_prev = (query.page > 1)
       /\ ((/\ Len(categories) = 5
            /\ query.search # <<>>
            /\ Cardinality(MatchingPositions(query)) = 2
            /\ query.page = 1
            /\ query.per_page = 2)
           => /\ page_fc.total = 2
              /\ page_fc.pages = 1
              /\ Len(page_fc.items) = 2
              /\ ~page_fc.has_next)

\* C18 witness: the term "check" over the five records, of which "Checks"
\* and "Paychecks" match, page 1 with per_page 2.
C18_Witness ==
    /\ page_fc.code = 200
    /\ categories = ExampleStore
    /\ query.search = TermCheck
    /\ query.status = Missing
    /\ query.page = 1
    /\ query.per_page = 2
    /\ {page_fc.items[k].name : k \in 1..Len(page_fc.items)} =
          {RecordChecks.name, RecordPaychecks.name}

\* The integer a numeral of the query string stands for.
Requested(numeral) == ParseInt(numeral)

\* C14: a listing request with page < 1 or per_page outside [1,100] is refused
\* without a call of get_all, without a query, a sorted list or a page of
\* items; and every page that is produced was sliced from an offset >= 0.
C14_OutOfRangeRejected ==
    request_args # NoArgs
    => /\ (\/ Requested(request_args.page) < 1
           \/ Requested(request_args.per_page) < 1
           \/ Requested(request_args.per_page) > 100)
          => /\ page_fc = RejectedPage
             /\ ~fetched
             /\ query = NoQuery
             /\ ordered = <<>>
       /\ page_fc.code = 200
          => /\ fetched
             /\ query.page = Requested(request_args.page)
             /\ query.per_page = Requested(request_args.per_page)
             /\ SliceStart(query.page, query.per_page) >= 0

\* C14 witness: page=0 asked of a store that holds records is refused.
C14_Witness ==
    /\ request_args.page = <<"0">>
    /\ request_args.per_page = <<"2">>
    /\ categories # <<>>
    /\ page_fc.code = 400

\* The sort key of the contract: a timestamp by its instant, any other field
\* by its str, and a missing or null value as the zero value of the field's
\* type (the epoch for a timestamp, the empty str otherwise).
ZeroValueKey(cat, sort_field) ==
    IF sort_field = "created_date"
    THEN NumKey(IF cat.created_date # <<>> THEN cat.created_date[1] ELSE 0)
    ELSE IF sort_field \in RecordFields THEN StrKey(StrField(cat, sort_field))
    ELSE StrKey(<<>>)

\* C24: whatever the sort field and whichever records lack it or hold null in
\* it, get_file_categories completes, and its sorted list holds the matching
\* records ordered by the contract's key: a timestamp by its instant, a
\* missing or null value as the zero value of the field's type.
C24_SortNeverFailsOnAbsentData ==
    fetched
    => /\ page_fc.code = 200
       /\ Len(ordered) = Len(Filtered(categories, query))
       /\ \A i, j \in 1..Len(ordered) :
             i < j =>
                IF query.order = "desc"
                THEN ~KeyLess(ZeroValueKey(ordered[i], query.sort),
                              ZeroValueKey(ordered[j], query.sort))
                ELSE ~KeyLess(ZeroValueKey(ordered[j], query.sort),
                              ZeroValueKey(ordered[i], query.sort))

\* C25: after get_file_categories the list that FileCategory.get_all() handed
\* out holds the records of the collection in the order in which it was
\* handed out: the query has neither reordered nor shortened it.  (No action
\* of the handler changes `categories`, the collection itself.)
C25_ListingChangesNothing ==
    fetched => all_categories_after = categories

\* ------------------------------------------------------- claims: validation

\* The errors reported for the definition at 0-based position idx.
ErrorsOf(idx) ==
    {k \in 1..Len(validation.errors) : validation.errors[k].index = idx}

\* The findings reported for field field_idx of the definition at idx.
FindingsOf(findings, idx, field_idx) ==
    {k \in 1..Len(findings) : findings[k].index = idx /\ findings[k].field = field_idx}

\* C15: if some definition of the validated list has no 'fields' key, or an
\* empty fields list, then at least one error is reported (one of them for
\* that definition), the status is 'invalid' and the HTTP code 400, whatever
\* the other definitions are.
C15_MissingFieldsIsAnError ==
    validation.code # 0
    => \A k \in 1..Len(indexes_to_create) :
          (~indexes_to_create[k].hasFields \/ indexes_to_create[k].fields = <<>>)
          => /\ Len(validation.errors) >= 1
             /\ ErrorsOf(k - 1) # {}
             /\ validation.status = "invalid"
             /\ validation.code = 400

\* C15 witness: a validated list whose first definition is complete and
\* whose second has an empty fields list.
C15_Witness ==
    /\ validation.code = 400
    /\ Len(indexes_to_create) >= 2
    /\ indexes_to_create[1] = DefUsers
    /\ indexes_to_create[2].hasFields
    /\ indexes_to_create[2].fields = <<>>

\* The field has a non-empty path and exactly one of order / arrayConfig,
\* holding a value the data model allows for it.
FieldWellFormed(field) ==
    /\ field.fieldPath \notin {Missing, ""}
    /\ (field.order # Missing) # (field.arrayConfig # Missing)
    /\ field.order \in {Missing, "ASCENDING", "DESCENDING"}
    /\ field.arrayConfig \in {Missing, "CONTAINS"}

\* The definition has a non-empty collection and a non-empty list of
\* well-formed fields.
DefinitionWellFormed(index_def) ==
    /\ index_def.collectionGroup \notin {Missing, ""}
    /\ index_def.hasFields
    /\ index_def.fields # <<>>
    /\ \A k \in 1..Len(index_def.fields) : FieldWellFormed(index_def.fields[k])

C17_BothIsAWarning ==
    validation.code # 0
    => /\ \A k \in 1..Len(indexes_to_create) :
            \A f \in 1..Len(indexes_to_create[k].fields) :
               LET field == indexes_to_create[k].fields[f]
               IN (field.order # Missing /\ field.arrayConfig # Missing)
                  => /\ Cardinality(FindingsOf(validation.warnings, k - 1, f - 1)) = 1
                     /\ ((/\ field.order \in {"ASCENDING", "DESCENDING"}
                          /\ field.arrayConfig = "CONTAINS"
                          /\ field.fieldPath # Missing)
                         => FindingsOf(validation.errors, k - 1, f - 1) = {})
       /\ (validation.code = 200) = (validation.errors = <<>>)
       /\ (validation.status = "valid") = (validation.errors = <<>>)
       /\ validation.code \in {200, 400}

\* C17 witness: a configuration whose only finding is the warning of a field
\* with both keys is answered 'valid' with HTTP 200.
C17_Witness ==
    /\ validation.code = 200
    /\ validation.status = "valid"
    /\ Len(validation.warnings) = 1
    /\ validation.errors = <<>>
    /\ \E k \in 1..Len(indexes_to_create) : indexes_to_create[k] = DefBoth

\* ----------------------------------------- claims: validation and provisioning

\* C21: every definition that create_indexes marks Skipped has at least one
\* error in the report of validate_indexes on the same file, and a file that
\* validates with zero errors has no Skipped definition.
C21_SkippedIsCaughtByValidator ==
    validation.code # 0
    => /\ \A k \in 1..Len(results) :
             results[k].status = "Skipped" => ErrorsOf(k - 1) # {}
       /\ (validation.errors = <<>>
             => \A k \in 1..Len(results) : results[k].status # "Skipped")


\* ----------------------------------------------------- claims: file categories

\* No two stored categories have the same upper-cased code.
CodesUnique ==
    \A c, d \in fc_store : c.id # d.id => Upper(c.code) # Upper(d.code)

\* Worker w saves a category in this step.
Saves(w) == fc_pc[w] \in {"create_checked", "update_checked"} /\ fc_pc'[w] = "idle"

\* C26: under any interleaving of create_file_category and
\* update_file_category requests no two stored categories ever have the same
\* upper-cased code, a request never saves a category whose code another
\* stored category has, and a request answered 409 leaves the store as it is.
C26_CodesStayUnique ==
    /\ []CodesUnique
    /\ [][\A w \in Workers :
             /\ Saves(w) => ~CodeExists(fc_store, fc_obj[w].code, fc_obj[w].id)
             /\ (fc_pc'[w] = "idle" /\ fc_ans'[w] # fc_ans[w] /\ fc_ans'[w].code = 409
                   => fc_ans'[w].error = "CATEGORY_EXISTS" /\ fc_store' = fc_store)]_vars

\* Worker w handles a delete request of an admin for a stored category that
\* is assigned to a user, and takes a step of the handler.
DeletesAssigned(w) ==
    /\ fc_pc[w] \in {"delete_loaded", "delete_checked"}
    /\ fc_pc'[w] # fc_pc[w]
    /\ user_count[fc_req[w].id] > 0

\* Worker w returns from a deletion that succeeded.
DeleteSucceeds(w) ==
    /\ fc_req[w].op = "delete"
    /\ fc_pc[w] # "idle"
    /\ fc_pc'[w] = "idle"
    /\ fc_ans'[w].code = 200

\* C28: a category that is assigned to at least one user stays stored; an
\* admin's delete_file_category on it returns 400 CATEGORY_IN_USE and changes
\* neither the store nor the activity log; a deletion that succeeds removes
\* the category of the request and no other, and appends exactly one
\* 'file_category_deleted' entry to the log.
C28_AssignedCategoryIsNotDeleted ==
    [][/\ \A c \in fc_store : user_count[c.id] > 0 => GetById(fc_store', c.id) # {}
       /\ \A w \in Workers :
             /\ DeletesAssigned(w)
                   => /\ fc_store' = fc_store
                      /\ activity' = activity
                      /\ fc_pc'[w] = "idle"
                      /\ fc_ans'[w] = FcAnswer(400, "CATEGORY_IN_USE")
             /\ DeleteSucceeds(w)
                   => /\ fc_store' = {c \in fc_store : c.id # fc_req[w].id}
                      /\ \E code \in {c.code : c \in GetById(fc_store, fc_req[w].id)}
                                      \cup {fc_obj[w].code} :
                            activity' = Append(activity,
                                               Activity("file_category_deleted", code))]_vars

\* C28 witness: a delete of an assigned category was answered 400 with the
\* category still stored, and another category was deleted and logged.
C28_Witness ==
    /\ \E w \in Workers :
          /\ fc_req[w].op = "delete"
          /\ user_count[fc_req[w].id] > 0
          /\ fc_ans[w] = FcAnswer(400, "CATEGORY_IN_USE")
          /\ GetById(fc_store, fc_req[w].id) # {}
    /\ \E k \in 1..Len(activity) : activity[k].event_type = "file_category_deleted"
    /\ \E i \in 1..2 : GetById(fc_store, i) = {}


\* ------------------------------------------------------------- claims: users

\* No SSO user has a password.
SsoHasNoPassword == \A u \in users : u.is_sso_user => u.password_hash = Missing

\* The request handled in this step is an admin's update_user that carries a
\* password for a user who is an SSO user.
UpdatesSsoPassword ==
    /\ user_req'.op = "update"
    /\ user_req'.role = "admin"
    /\ user_req'.password # Missing
    /\ \E u \in users : u.id = user_req'.id /\ u.is_sso_user

\* The request handled in this step created an SSO user.
CreatesSso ==
    /\ user_req'.op = "create"
    /\ user_req'.is_sso_user
    /\ user_ans'.code = 201
    /\ users' # users

====
